---------------------------- MODULE Spec2Model ----------------------------
(***************************************************************************)
(* Vapor-compression refrigeration simulator and synthetic telemetry       *)
(* generator.                                                              *)
(*                                                                         *)
(*   backend/motor_termodinamico.py   simular_refrigerador                 *)
(*   scripts/generar_datos.py         calcular_temperatura_ambiente,       *)
(*                                    simular_evento_apertura_puerta,      *)
(*                                    generar_datos                        *)
(*                                                                         *)
(* Fixed-point units (all quantities are integers):                        *)
(*   temperature, delta-T   milli-degree Celsius (mC), Kelvin in mK        *)
(*   mass flow              0.01 kg/s                                      *)
(*   isentropic efficiency  1e-4                                           *)
(*   specific enthalpy      10 J/kg                                        *)
(*   specific entropy       J/(kg K)                                       *)
(*   power                  0.1 W  (mass flow x enthalpy difference)       *)
(*   COP, vapor quality     1e-3                                           *)
(*   time                   hours since 1 January 00:00 of the clock year  *)
(***************************************************************************)
EXTENDS Integers, Sequences, FiniteSets, TLC

(***************************************************************************)
(* Arithmetic helpers.                                                     *)
(***************************************************************************)
Abs(x) == IF x < 0 THEN -x ELSE x

Max(a, b) == IF a >= b THEN a ELSE b

Min(a, b) == IF a <= b THEN a ELSE b

\* Python round(x, n): nearest multiple of `unit`, ties to the even multiple.
Round(x, unit) ==
    LET q == x \div unit
        r == x % unit
    IN  IF 2 * r < unit THEN q * unit
        ELSE IF 2 * r > unit THEN (q + 1) * unit
        ELSE IF q % 2 = 0 THEN q * unit ELSE (q + 1) * unit

\* Q_(x, "degC").to("kelvin")
AKelvin(t_mC) == t_mC + 273150

(***************************************************************************)
(* Property provider: CoolProp PropsSI for R134a, as a first-order fluid.  *)
(* Saturation lines are linear fits of the R134a table; off the saturated  *)
(* vapor line a state at pressure P obeys dh = T ds with T the saturation  *)
(* temperature of P (exact inside the dome).  A pressure is carried as the *)
(* image of its saturation temperature under a strictly increasing map, so *)
(* a lookup keyed by P recovers that temperature exactly.                  *)
(***************************************************************************)
\* A (T, Q) saturation query is answered only inside the phase envelope,
\* between the R134a triple point (-103.30 C) and critical point (101.06 C);
\* outside it PropsSI raises ValueError.
EnEnvolvente(t_mC) == t_mC >= -103300 /\ t_mC <= 101060

\* PropsSI("P", "T", T, "Q", q)
PropsSI_P_TQ(t_mC) == 2000000 + 10 * t_mC

\* saturation temperature of a pressure (inverse of PropsSI_P_TQ)
TSat(p) == (p - 2000000) \div 10

\* PropsSI("H", "T", T, "Q", 1): saturated vapor enthalpy
PropsSI_Hg(t_mC) == 39860 + (53 * t_mC) \div 1000

\* PropsSI("H", "T"/"P", ., "Q", 0): saturated liquid enthalpy
PropsSI_Hf(t_mC) == 20000 + (137 * t_mC) \div 1000

\* PropsSI("S", "T", T, "Q", 1): saturated vapor entropy
PropsSI_Sg(t_mC) == 1727 - (4 * t_mC) \div 10000

\* PropsSI("H", "P", p, "S", s)
PropsSI_H_PS(p, s) ==
    LET t == TSat(p)
    IN  PropsSI_Hg(t) + (AKelvin(t) * (s - PropsSI_Sg(t))) \div 10000

\* PropsSI("S", "P", p, "H", h): the entropy whose enthalpy at p is h
PropsSI_S_PH(p, h) ==
    LET t == TSat(p)
    IN  PropsSI_Sg(t) + (((h - PropsSI_Hg(t)) + 1) * 10000 - 1) \div AKelvin(t)

\* PropsSI("T", "H", h, "P", p), in mK: superheated above the dome,
\* saturation temperature inside it, subcooled below it
PropsSI_T_HP(h, p) ==
    LET t == TSat(p)
    IN  IF h >= PropsSI_Hg(t) THEN AKelvin(t) + 10 * (h - PropsSI_Hg(t))
        ELSE IF h >= PropsSI_Hf(t) THEN AKelvin(t)
        ELSE AKelvin(t) - 7 * (PropsSI_Hf(t) - h)

\* PropsSI("Q", "P", p, "H", h): vapor quality inside the dome, -1 for a
\* single-phase state
PropsSI_Q_PH(p, h) ==
    LET t == TSat(p)
        hf == PropsSI_Hf(t)
        hg == PropsSI_Hg(t)
    IN  IF h >= hf /\ h <= hg /\ hg > hf
        THEN ((h - hf) * 1000) \div (hg - hf)
        ELSE -1000

(***************************************************************************)
(* Cycle solver: simular_refrigerador.                                     *)
(***************************************************************************)
\* h2 = h1 + (h2_ideal - h1) / eta_isentropica
H2Real(h1, h2_ideal, eta) == h1 + ((h2_ideal - h1) * 10000) \div eta

\* Mutation of Entalpia4: state 4 taken as saturated liquid at P4.
Entalpia4Saturada(h3, p4) == PropsSI_Hf(TSat(p4))

\* h4 = h3 (isenthalpic throttling)
Entalpia4(h3, p4) == h3

\* Trabajo_necesario = Flujo_masico * (h2 - h1)
TrabajoNecesario(flujo, h1, h2) == flujo * (h2 - h1)

\* Q_evap = Flujo_masico * (h1 - h4)
CalorEvap(flujo, h1, h4) == flujo * (h1 - h4)

\* Mutation of EstadoDosRecalculado: state 2 keeps the condensing
\* temperature written by the dictionary literal.
EstadoDosSinRecalcular(resultados, T2_real) == resultados

\* resultados["states"][2]["T"] = T2_real
EstadoDosRecalculado(resultados, T2_real) ==
    [resultados EXCEPT !.states[2].T = T2_real]

\* an exception raised inside the solver (by the provider or by a division)
Fallo(tipo) == [ok |-> FALSE, error |-> tipo]

simular_refrigerador(T_ambiente_C, T_interior_C, Flujo_masico_kg_s, eta_isentropica, Delta_T_cond_C) ==
    LET T_condensacion == T_ambiente_C + Delta_T_cond_C
    IN
    IF ~EnEnvolvente(T_interior_C) THEN Fallo("ValueError")
    ELSE IF ~EnEnvolvente(T_condensacion) THEN Fallo("ValueError")
    ELSE IF eta_isentropica = 0 THEN Fallo("ZeroDivisionError")
    ELSE
    LET h1 == PropsSI_Hg(T_interior_C)
        s1 == PropsSI_Sg(T_interior_C)
        P2 == PropsSI_P_TQ(T_condensacion)
        h2_ideal == PropsSI_H_PS(P2, s1)
        h2 == H2Real(h1, h2_ideal, eta_isentropica)
        Trabajo_necesario == TrabajoNecesario(Flujo_masico_kg_s, h1, h2)
        s2 == PropsSI_S_PH(P2, h2)
        P3 == P2
        h3 == PropsSI_Hf(TSat(P3))
        T3 == TSat(P3)
        P4 == PropsSI_P_TQ(T_interior_C)
        h4 == Entalpia4(h3, P4)
        x4 == PropsSI_Q_PH(P4, h4)
        Q_evap == CalorEvap(Flujo_masico_kg_s, h1, h4)
        T2_real == PropsSI_T_HP(h2, P2)
    IN
    IF Trabajo_necesario = 0 THEN Fallo("ZeroDivisionError")
    ELSE
    LET resultados ==
      [ ok |-> TRUE,
        error |-> "",
        scalar |->
          [ Trabajo_Compresor_kW |-> Trabajo_necesario,
            Calor_Extraido_kW |-> Q_evap,
            COP |-> (Q_evap * 1000) \div Trabajo_necesario,
            Calidad_Evap |-> x4,
            Temp_Descarga_C |-> PropsSI_T_HP(h2, P2) - 273150,
            Flujo_Masico_kg_s |-> Flujo_masico_kg_s ],
        states |->
          << [P |-> P4, T |-> AKelvin(T_interior_C), h |-> h1, s |-> s1],
             [P |-> P2, T |-> AKelvin(T_condensacion), h |-> h2, s |-> s2],
             [P |-> P3, T |-> AKelvin(T3), h |-> h3,
              s |-> PropsSI_S_PH(P3, h3)],
             [P |-> P4, T |-> AKelvin(T_interior_C), h |-> h4,
              s |-> PropsSI_S_PH(P4, h4)] >> ]
    IN  EstadoDosRecalculado(resultados, T2_real)

(***************************************************************************)
(* State classifier: the if / elif / else of generar_datos.                *)
(***************************************************************************)
\* Mutation of Clasificar: the ADVERTENCIA test evaluated first.
ClasificarAdvertenciaPrimero(delta_t_cond, cop) ==
    IF delta_t_cond > 20000 \/ cop < 2500 THEN "ADVERTENCIA"
    ELSE IF delta_t_cond > 25000 \/ cop < 2000 THEN "ALARMA"
    ELSE "NORMAL"

\* Mutation of Clasificar: the ADVERTENCIA test on COP reversed.
ClasificarCopInvertido(delta_t_cond, cop) ==
    IF delta_t_cond > 25000 \/ cop < 2000 THEN "ALARMA"
    ELSE IF delta_t_cond > 20000 \/ cop > 2500 THEN "ADVERTENCIA"
    ELSE "NORMAL"

Clasificar(delta_t_cond, cop) ==
    IF delta_t_cond > 25000 \/ cop < 2000 THEN "ALARMA"
    ELSE IF delta_t_cond > 20000 \/ cop < 2500 THEN "ADVERTENCIA"
    ELSE "NORMAL"

(***************************************************************************)
(* The module-level generator of Python's random: one hidden state shared  *)
(* by every call, seeded from operating-system entropy when the module is  *)
(* imported.  Each call advances the state; a draw u in [0, 1) is the new  *)
(* state over 100.                                                         *)
(***************************************************************************)
Avanza(r) == (21 * r + 97) % 100

\* random.gauss(0, 1.5), in mC, by quantile of the draw
Gauss(u) ==
    IF u < 3 THEN -6000
    ELSE IF u < 25 THEN -1500
    ELSE IF u < 75 THEN 0
    ELSE IF u < 97 THEN 1500
    ELSE 6000

\* random.uniform(a, b) = a + (b - a) * random()
Uniform(a, b, u) == a + ((b - a) * u) \div 100

(***************************************************************************)
(* Environment model.                                                      *)
(***************************************************************************)
\* factor_estacion = 0.5 * (1 + (dia - 172) / 172), in units of 1/344
FactorEstacion(dia_del_anio) == 172 + (dia_del_anio - 172)

\* temp_base, in units of mC / 344
TempBase(dia_del_anio) ==
    (-5000) * 344 + (10000 - (-5000)) * FactorEstacion(dia_del_anio)

\* variacion_diurna = 4 * (1 - abs(hora - 15) / 12), in units of mC / 12
VariacionDiurna(hora) == 4000 * (12 - Abs(hora - 15))

\* calcular_temperatura_ambiente, with the Gaussian draw made explicit;
\* the sum is formed exactly over the common denominator 1032 = lcm(344, 12)
calcular_temperatura_ambiente(hora, dia_del_anio, ruido) ==
    Round(3 * TempBase(dia_del_anio) + 86 * VariacionDiurna(hora)
            + 1032 * ruido, 100 * 1032) \div 1032

\* Mutation of simular_evento_apertura_puerta: the two branches of the
\* ladder return each other's range.
simular_evento_apertura_puerta_cruzado(r) ==
    LET r1 == Avanza(r)
        r2 == Avanza(r1)
    IN  IF r1 < 5
        THEN [prob_apertura |-> r1, valor |-> Uniform(1000, 3000, r2),
              rng |-> r2]
        ELSE IF r1 < 20
        THEN [prob_apertura |-> r1, valor |-> Uniform(3000, 8000, r2),
              rng |-> r2]
        ELSE [prob_apertura |-> r1, valor |-> 0, rng |-> r1]

\* simular_evento_apertura_puerta from generator state r: the draw of the
\* ladder, the excursion in mC and the generator state it leaves
simular_evento_apertura_puerta(r) ==
    LET r1 == Avanza(r)
        r2 == Avanza(r1)
    IN  IF r1 < 5
        THEN [prob_apertura |-> r1, valor |-> Uniform(3000, 8000, r2),
              rng |-> r2]
        ELSE IF r1 < 20
        THEN [prob_apertura |-> r1, valor |-> Uniform(1000, 3000, r2),
              rng |-> r2]
        ELSE [prob_apertura |-> r1, valor |-> 0, rng |-> r1]

(***************************************************************************)
(* Calendar: datetime arithmetic on the hour grid.                         *)
(***************************************************************************)
\* fecha.timetuple().tm_yday, years of 365 days
DiaDelAnio(t) == ((t \div 24) % 365) + 1

\* fecha.hour
Hora(t) == t % 24

(***************************************************************************)
(* Bounds of the model.                                                    *)
(***************************************************************************)
MaxDias == 3

MaxSemilla == 7

\* entropy values the random module may be seeded with
Semillas == 0..MaxSemilla

\* tick periods, in hours
Frecuencias == {1, 12, 24, 48}

\* wall-clock readings: 3 January 02:00 and 19 June 14:00
Relojes == {50, 4070}

\* solver parameters tried directly
TemperaturasAmbiente == {-20000, -11000, 5000, 20000, 95000}

TemperaturasInterior == {-18000, 4000, 120000}

Flujos == {-8, 0, 8, 12}

Eficiencias == {-5000, 0, 6000, 7500, 10000, 12000}

DeltasCondensador == {-5000, 0, 15000, 25500}

\* classifier inputs tried directly: around both thresholds of each input
DeltasClasificador ==
    {15000, 19990, 20000, 20010, 24990, 25000, 25010, 30000}

CopsClasificador ==
    {-26229, 1800, 1990, 2000, 2010, 2490, 2500, 2510, 5500}

\* Delta-T and COP values on both sides of the thresholds and of the
\* rounding steps of the record, 0.1 and 0.01.
DeltasRegistro == DeltasClasificador \cup {20040, 20060, 25040}

CopsRegistro == CopsClasificador \cup {1996, 2004, 2496}

\* The hours of a day, the days of a year and the noise values Gauss can
\* return, for calcular_temperatura_ambiente.
Horas == 0..23

DiasDelAnio == 1..366

Ruidos == {-6000, -1500, 0, 1500, 6000}

(***************************************************************************)
(* Telemetry generator: generar_datos.                                     *)
(***************************************************************************)
VARIABLES
    DIAS_SIMULACION,    \* configured horizon, days
    FRECUENCIA_HORAS,   \* configured tick period, hours
    EQUIPOS,            \* configured equipment, in dictionary order
    ahora,              \* wall clock read by datetime.now()
    semilla,            \* entropy the random module was seeded with
    rng,                \* state of the module-level random generator
    archivo,            \* destination CSV: "ausente", "existente", "escrito"
    pc,                 \* position in generar_datos
    i,                  \* tick index of the outer loop
    k,                  \* position in EQUIPOS of the inner loop
    t_ambiente,         \* ambient temperature of the current tick
    registros,          \* records appended so far
    errores,            \* simulation errors printed so far
    intentos,           \* (tick, unit) pairs the loop has gone through
    llamada,            \* parameters of the last solver call
    resultado,          \* what the last solver call returned or raised
    clasif,             \* last classification: unrounded inputs and label
    clasif_previa,      \* the classification before it
    corrida,            \* 1 for the first run of the program, 2 for a rerun
    corrida_previa,     \* seed and records of the first run, for comparison
    ambiente,           \* terms of the last ambient temperature computed
    locales             \* local values of the last pass of the inner loop

vars == << DIAS_SIMULACION, FRECUENCIA_HORAS, EQUIPOS, ahora, semilla, rng,
           archivo, pc, i, k, t_ambiente, registros, errores, intentos,
           llamada, resultado, clasif, clasif_previa, corrida,
           corrida_previa, ambiente, locales >>

config == << DIAS_SIMULACION, FRECUENCIA_HORAS, EQUIPOS >>

\* The shipped EQUIPOS dictionary.
EQUIPOS_ENVIADOS ==
    << [id |-> "CAMARA_01_CARNES", t_interior |-> -18000, flujo |-> 12],
       [id |-> "CAMARA_02_LACTEOS", t_interior |-> 4000, flujo |-> 8],
       [id |-> "CAMARA_03_VERDURAS", t_interior |-> 4000, flujo |-> 8] >>

\* fecha_inicio = datetime.now() - timedelta(days=DIAS_SIMULACION)
FechaInicio(t_ahora, dias) == t_ahora - 24 * dias

\* total_puntos = DIAS_SIMULACION * 24 // FRECUENCIA_HORAS
TotalPuntos(dias, frecuencia) == (dias * 24) \div frecuencia

\* fecha = fecha_inicio + timedelta(hours=i * FRECUENCIA_HORAS)
Fecha(t_ahora, dias, frecuencia, tick) ==
    FechaInicio(t_ahora, dias) + tick * frecuencia

\* Mutation of DiasRestantes: the day in progress is counted as elapsed.
DiasRestantesHastaCero(dias, tick) == dias - (tick \div 24) - 1

\* dias_restantes = DIAS_SIMULACION - (i // 24)
DiasRestantes(dias, tick) == dias - (tick \div 24)

\* factor_degradacion = 1 + (2 - dias_restantes) * 0.7, in tenths
FactorDegradacion(dias_restantes) == 10 + (2 - dias_restantes) * 7

\* delta_t_cond after the fouling branch
DeltaDegradado(delta_t_cond, dias_restantes) ==
    IF dias_restantes <= 2
    THEN (delta_t_cond * FactorDegradacion(dias_restantes)) \div 10
    ELSE delta_t_cond

\* Mutation of Eta: max and min are exchanged in the clamp.
EtaAcotadaAlReves(u) == Min(6000, Max(8500, 7500 + Uniform(-300, 200, u)))

\* eta = max(0.60, min(0.85, eta_base + variacion_eta))
Eta(u) == Max(6000, Min(8500, 7500 + Uniform(-300, 200, u)))

\* The locals of calcular_temperatura_ambiente for one call: the blend
\* factor in 1/344, the seasonal base in mC/344, the diurnal term in mC/12,
\* the noise and the returned temperature in mC.
TerminosAmbiente(hora, dia_del_anio, ruido) ==
    [ hora |-> hora,
      dia_del_anio |-> dia_del_anio,
      factor_estacion |-> FactorEstacion(dia_del_anio),
      temp_base |-> TempBase(dia_del_anio),
      variacion_diurna |-> VariacionDiurna(hora),
      ruido |-> ruido,
      temperatura |-> calcular_temperatura_ambiente(hora, dia_del_anio, ruido) ]

\* Lines 90-94: the ambient temperature of a tick, drawn from generator
\* state r, and the generator state it leaves.
AmbienteDeTick(t_ahora, dias, frecuencia, tick, r) ==
    LET fecha == Fecha(t_ahora, dias, frecuencia, tick)
        r1 == Avanza(r)
    IN  [ t |-> calcular_temperatura_ambiente(Hora(fecha), DiaDelAnio(fecha),
                                              Gauss(r1)),
          terminos |-> TerminosAmbiente(Hora(fecha), DiaDelAnio(fecha),
                                        Gauss(r1)),
          rng |-> r1 ]

\* Mutation of TInteriorDeLlamada: the solver is given the jittered
\* interior temperature of the record.
TInteriorConRuido(params, ruido_sensor) == params.t_interior + ruido_sensor

\* T_interior_C = params["t_interior"]: the evaporation temperature of the
\* solver call is the setpoint, whatever the sensor noise of the record.
TInteriorDeLlamada(params, ruido_sensor) == params.t_interior

\* Mutation of RegistroDe: the state is decided on the rounded columns.
RegistroDeRedondeado(fecha, params, t_amb, delta_t_cond, eta, scalar, ruido_sensor) ==
    [ timestamp |-> fecha,
      id_equipo |-> params.id,
      t_ambiente_C |-> t_amb,
      t_interior_C |-> Round(params.t_interior + ruido_sensor, 100),
      delta_t_cond_C |-> Round(delta_t_cond, 100),
      eta_compresor |-> Round(eta, 10),
      cop |-> Round(scalar.COP, 10),
      temp_descarga_C |-> Round(scalar.Temp_Descarga_C, 100),
      trabajo_kW |-> Round(scalar.Trabajo_Compresor_kW, 10),
      calor_extraido_kW |-> Round(scalar.Calor_Extraido_kW, 10),
      calidad_evap |-> Round(scalar.Calidad_Evap, 1),
      estado |-> Clasificar(Round(delta_t_cond, 100), Round(scalar.COP, 10)) ]

\* Lines 124-148: the state decided on the unrounded delta-T and COP, and
\* the record built from the rounded values.
RegistroDe(fecha, params, t_amb, delta_t_cond, eta, scalar, ruido_sensor) ==
    [ timestamp |-> fecha,
      id_equipo |-> params.id,
      t_ambiente_C |-> t_amb,
      t_interior_C |-> Round(params.t_interior + ruido_sensor, 100),
      delta_t_cond_C |-> Round(delta_t_cond, 100),
      eta_compresor |-> Round(eta, 10),
      cop |-> Round(scalar.COP, 10),
      temp_descarga_C |-> Round(scalar.Temp_Descarga_C, 100),
      trabajo_kW |-> Round(scalar.Trabajo_Compresor_kW, 10),
      calor_extraido_kW |-> Round(scalar.Calor_Extraido_kW, 10),
      calidad_evap |-> Round(scalar.Calidad_Evap, 1),
      estado |-> Clasificar(delta_t_cond, scalar.COP) ]

\* Lines 98-151: the body of the inner loop for one unit at one tick, from
\* generator state r: the solver call, its outcome, the record built on
\* success and the generator state left behind.
CuerpoEquipo(t_ahora, dias, frecuencia, tick, params, t_amb, r) ==
    LET puerta == simular_evento_apertura_puerta(r)
        delta_t_cond_base == 15000
        delta_t_cond_puerta == delta_t_cond_base + puerta.valor
        dias_restantes == DiasRestantes(dias, tick)
        delta_t_cond == DeltaDegradado(delta_t_cond_puerta, dias_restantes)
        r3 == Avanza(puerta.rng)
        eta == Eta(r3)
        r4 == Avanza(r3)
        t_interior == TInteriorDeLlamada(params, Uniform(-500, 500, r4))
        res == simular_refrigerador(t_amb, t_interior, params.flujo,
                                    eta, delta_t_cond)
    IN  [ locales |-> [ tick |-> tick,
                        id_equipo |-> params.id,
                        prob_apertura |-> puerta.prob_apertura,
                        incremento_puerta |-> puerta.valor,
                        delta_t_cond_base |-> delta_t_cond_base,
                        delta_t_cond_puerta |-> delta_t_cond_puerta,
                        dias_restantes |-> dias_restantes,
                        delta_t_cond |-> delta_t_cond,
                        variacion_eta |-> Uniform(-300, 200, r3),
                        eta |-> eta ],
          llamada |-> [ T_ambiente_C |-> t_amb,
                        T_interior_C |-> t_interior,
                        Flujo_masico_kg_s |-> params.flujo,
                        eta_isentropica |-> eta,
                        Delta_T_cond_C |-> delta_t_cond ],
          resultado |-> res,
          rng |-> IF res.ok THEN r4 ELSE r3,
          estado |-> IF res.ok THEN Clasificar(delta_t_cond, res.scalar.COP)
                     ELSE "",
          registro |->
            IF res.ok
            THEN RegistroDe(Fecha(t_ahora, dias, frecuencia, tick), params,
                            t_amb, delta_t_cond, eta, res.scalar,
                            Uniform(-500, 500, r4))
            ELSE [ id_equipo |-> params.id ] ]

\* Mutation of RegistrosTras: the new record is put at the head of the list.
RegistrosTrasAlFrente(regs, cuerpo) ==
    IF cuerpo.resultado.ok THEN << cuerpo.registro >> \o regs ELSE regs

\* Mutation of RegistrosTras: the record is appended whatever the outcome.
RegistrosTrasSinExcepcion(regs, cuerpo) == Append(regs, cuerpo.registro)

\* registros after one pass of the try / except: the append is the last
\* statement of the try block, the except branch only prints.
RegistrosTras(regs, cuerpo) ==
    IF cuerpo.resultado.ok THEN Append(regs, cuerpo.registro) ELSE regs

SinLlamada == [ok |-> FALSE, error |-> "ninguna"]

SinClasif == [delta_t_cond |-> 0, cop |-> 0, estado |-> ""]

\* No ambient temperature computed yet; no pass of the inner loop yet.
SinAmbiente == [hora |-> -1]

SinLocales == [tick |-> -1]

\* Lines 75-87: the destination file is removed if present, the record list
\* is emptied and the grid is sized.
Preparar ==
    /\ pc = "inicio"
    /\ archivo' = "ausente"
    /\ registros' = << >>
    /\ i' = 0
    /\ k' = 0
    /\ pc' = "tick"
    /\ UNCHANGED << config, ahora, semilla, rng, t_ambiente, errores,
                    intentos, llamada, resultado, clasif, clasif_previa,
                    corrida, corrida_previa, ambiente, locales >>

\* Lines 89-94: head of the outer loop for tick i.
InicioTick ==
    /\ pc = "tick"
    /\ i < TotalPuntos(DIAS_SIMULACION, FRECUENCIA_HORAS)
    /\ LET amb == AmbienteDeTick(ahora, DIAS_SIMULACION, FRECUENCIA_HORAS,
                                 i, rng)
       IN  /\ t_ambiente' = amb.t
           /\ ambiente' = amb.terminos
           /\ rng' = amb.rng
    /\ IF Len(EQUIPOS) = 0
       THEN i' = i + 1 /\ k' = 0 /\ pc' = "tick"
       ELSE i' = i /\ k' = 1 /\ pc' = "equipo"
    /\ UNCHANGED << config, ahora, semilla, archivo, registros, errores,
                    intentos, llamada, resultado, clasif, clasif_previa,
                    corrida, corrida_previa, locales >>

\* Lines 96-151: one pass of the inner loop, for unit k at tick i.
IterarEquipo ==
    /\ pc = "equipo"
    /\ LET cuerpo == CuerpoEquipo(ahora, DIAS_SIMULACION, FRECUENCIA_HORAS,
                                  i, EQUIPOS[k], t_ambiente, rng)
       IN  /\ rng' = cuerpo.rng
           /\ locales' = cuerpo.locales
           /\ llamada' = cuerpo.llamada
           /\ resultado' = cuerpo.resultado
           /\ registros' = RegistrosTras(registros, cuerpo)
           /\ errores' = IF cuerpo.resultado.ok THEN errores ELSE errores + 1
           /\ clasif' = IF cuerpo.resultado.ok
                        THEN [ delta_t_cond |-> cuerpo.llamada.Delta_T_cond_C,
                               cop |-> cuerpo.resultado.scalar.COP,
                               estado |-> cuerpo.estado ]
                        ELSE clasif
           /\ clasif_previa' = IF cuerpo.resultado.ok THEN clasif
                               ELSE clasif_previa
    /\ intentos' = intentos + 1
    /\ IF k < Len(EQUIPOS)
       THEN i' = i /\ k' = k + 1 /\ pc' = "equipo"
       ELSE i' = i + 1 /\ k' = 0 /\ pc' = "tick"
    /\ UNCHANGED << config, ahora, semilla, archivo, t_ambiente, corrida,
                    corrida_previa, ambiente >>

\* Lines 153-162: the records are written to the CSV and the summary is
\* printed; df['estado'] raises KeyError when there is no record at all.
Exportar ==
    /\ pc = "tick"
    /\ i >= TotalPuntos(DIAS_SIMULACION, FRECUENCIA_HORAS)
    /\ archivo' = "escrito"
    /\ pc' = IF registros = << >> THEN "abortado" ELSE "terminado"
    /\ UNCHANGED << config, ahora, semilla, rng, i, k, t_ambiente, registros,
                    errores, intentos, llamada, resultado, clasif,
                    clasif_previa, corrida, corrida_previa, ambiente,
                    locales >>

\* The program is started again with the same configuration: a new
\* process, whose random module is seeded afresh and whose clock has moved.
Relanzar ==
    /\ pc \in {"terminado", "abortado"}
    /\ corrida = 1
    /\ corrida' = 2
    /\ corrida_previa' = [semilla |-> semilla, registros |-> registros]
    /\ \E s \in Semillas : semilla' = s /\ rng' = s
    /\ \E dt \in 0..1 : ahora' = ahora + dt
    /\ pc' = "inicio"
    /\ i' = 0
    /\ k' = 0
    /\ errores' = 0
    /\ intentos' = 0
    /\ llamada' = SinLlamada
    /\ resultado' = SinLlamada
    /\ clasif' = SinClasif
    /\ clasif_previa' = SinClasif
    /\ ambiente' = SinAmbiente
    /\ locales' = SinLocales
    /\ UNCHANGED << config, archivo, t_ambiente, registros >>

(***************************************************************************)
(* Direct use of the solver and of the classifier on bounded inputs.       *)
(***************************************************************************)
\* simular_refrigerador called with parameters of the caller's choice.
Resolver ==
    /\ pc = "solver"
    /\ \E ta \in TemperaturasAmbiente, ti \in TemperaturasInterior,
          f \in Flujos, e \in Eficiencias, d \in DeltasCondensador :
          /\ llamada' = [ T_ambiente_C |-> ta, T_interior_C |-> ti,
                          Flujo_masico_kg_s |-> f, eta_isentropica |-> e,
                          Delta_T_cond_C |-> d ]
          /\ resultado' = simular_refrigerador(ta, ti, f, e, d)
    /\ UNCHANGED << config, ahora, semilla, rng, archivo, pc, i, k,
                    t_ambiente, registros, errores, intentos, clasif,
                    clasif_previa, corrida, corrida_previa, ambiente,
                    locales >>

\* The classification rule applied to a (delta-T, COP) pair.
Clasifica ==
    /\ pc = "clasificador"
    /\ \E d \in DeltasClasificador, c \in CopsClasificador :
          clasif' = [delta_t_cond |-> d, cop |-> c, estado |-> Clasificar(d, c)]
    /\ clasif_previa' = clasif
    /\ UNCHANGED << config, ahora, semilla, rng, archivo, pc, i, k,
                    t_ambiente, registros, errores, intentos, llamada,
                    resultado, corrida, corrida_previa, ambiente, locales >>

\* calcular_temperatura_ambiente called once with an hour, a day of the year
\* and a noise of the caller's choice.
CalculaAmbiente ==
    /\ pc = "ambiente"
    /\ ambiente = SinAmbiente
    /\ \E hora \in Horas, dia_del_anio \in DiasDelAnio, ruido \in Ruidos :
          /\ ambiente' = TerminosAmbiente(hora, dia_del_anio, ruido)
          /\ t_ambiente' =
                calcular_temperatura_ambiente(hora, dia_del_anio, ruido)
    /\ UNCHANGED << config, ahora, semilla, rng, archivo, pc, i, k, registros,
                    errores, intentos, llamada, resultado, clasif,
                    clasif_previa, corrida, corrida_previa, locales >>

\* Lines 124-148 on a solved cycle whose delta-T and COP are of the
\* caller's choice: the state is decided and the record is appended.
Registra ==
    /\ pc = "registro"
    /\ \E d \in DeltasRegistro, c \in CopsRegistro :
          LET scalar == [ Trabajo_Compresor_kW |-> 29330,
                          Calor_Extraido_kW |-> 166500,
                          COP |-> c,
                          Calidad_Evap |-> 219,
                          Temp_Descarga_C |-> 47300,
                          Flujo_Masico_kg_s |-> EQUIPOS[1].flujo ]
              registro == RegistroDe(ahora, EQUIPOS[1], t_ambiente, d, 7500,
                                     scalar, 0)
          IN  /\ registros' = << registro >>
              /\ clasif' = [ delta_t_cond |-> d, cop |-> c,
                             estado |-> registro.estado ]
    /\ UNCHANGED << config, ahora, semilla, rng, archivo, pc, i, k,
                    t_ambiente, errores, intentos, llamada, resultado,
                    clasif_previa, corrida, corrida_previa, ambiente,
                    locales >>

(***************************************************************************)
(* Specifications.                                                         *)
(***************************************************************************)
Reposo ==
    /\ i = 0
    /\ k = 0
    /\ t_ambiente = 0
    /\ registros = << >>
    /\ errores = 0
    /\ intentos = 0
    /\ llamada = SinLlamada
    /\ resultado = SinLlamada
    /\ clasif = SinClasif
    /\ clasif_previa = SinClasif
    /\ corrida = 1
    /\ corrida_previa = [semilla |-> 0, registros |-> << >>]
    /\ ambiente = SinAmbiente
    /\ locales = SinLocales

\* One run of the generator under any configuration of the bounded family.
Init ==
    /\ DIAS_SIMULACION \in 0..MaxDias
    /\ FRECUENCIA_HORAS \in Frecuencias
    /\ EQUIPOS \in { SubSeq(EQUIPOS_ENVIADOS, 1, n) :
                       n \in 0..Len(EQUIPOS_ENVIADOS) }
    /\ ahora \in Relojes
    /\ semilla \in Semillas
    /\ rng = semilla
    /\ archivo \in {"ausente", "existente"}
    /\ pc = "inicio"
    /\ Reposo

Next == Preparar \/ InicioTick \/ IterarEquipo \/ Exportar

Spec == Init /\ [][Next]_vars

\* One run of the generator under the shipped configuration: 7 days of
\* 1-hour ticks for the three shipped units.
InitEnviada ==
    /\ DIAS_SIMULACION = 7
    /\ FRECUENCIA_HORAS = 1
    /\ EQUIPOS = EQUIPOS_ENVIADOS
    /\ ahora \in Relojes
    /\ semilla \in Semillas
    /\ rng = semilla
    /\ archivo \in {"ausente", "existente"}
    /\ pc = "inicio"
    /\ Reposo

SpecEnviada == InitEnviada /\ [][Next]_vars

\* Two consecutive runs of the generator under one configuration.
InitDosCorridas ==
    /\ DIAS_SIMULACION = 1
    /\ FRECUENCIA_HORAS = 12
    /\ EQUIPOS = EQUIPOS_ENVIADOS
    /\ ahora \in Relojes
    /\ semilla \in Semillas
    /\ rng = semilla
    /\ archivo = "ausente"
    /\ pc = "inicio"
    /\ Reposo

NextDosCorridas ==
    Preparar \/ InicioTick \/ IterarEquipo \/ Exportar \/ Relanzar

SpecDosCorridas == InitDosCorridas /\ [][NextDosCorridas]_vars

InitInactivo ==
    /\ DIAS_SIMULACION = 7
    /\ FRECUENCIA_HORAS = 1
    /\ EQUIPOS = EQUIPOS_ENVIADOS
    /\ ahora = 0
    /\ semilla = 0
    /\ rng = 0
    /\ archivo = "ausente"
    /\ Reposo

InitSolver == InitInactivo /\ pc = "solver"

NextSolver == Resolver

SpecSolver == InitSolver /\ [][NextSolver]_vars

InitClasificador == InitInactivo /\ pc = "clasificador"

NextClasificador == Clasifica

SpecClasificador == InitClasificador /\ [][NextClasificador]_vars

\* calcular_temperatura_ambiente on every hour and every day of the year.
InitAmbiente == InitInactivo /\ pc = "ambiente"

NextAmbiente == CalculaAmbiente

SpecAmbiente == InitAmbiente /\ [][NextAmbiente]_vars

\* The record construction on bounded delta-T and COP values.
InitRegistro == InitInactivo /\ pc = "registro"

NextRegistro == Registra

SpecRegistro == InitRegistro /\ [][NextRegistro]_vars

(***************************************************************************)
(* Properties.                                                             *)
(***************************************************************************)
Clasificado == clasif.estado # ""

ParametrosValidos ==
    /\ llamada # SinLlamada
    /\ llamada.Flujo_masico_kg_s > 0
    /\ llamada.eta_isentropica > 0
    /\ llamada.eta_isentropica <= 10000
    /\ llamada.Delta_T_cond_C > 0

\* C1: the label is ALARMA if delta-T > 25 or COP < 2.0; otherwise
\* ADVERTENCIA if delta-T > 20 or COP < 2.5; otherwise NORMAL.  The ALARMA
\* test wins when both apply and exactly one of the three labels is produced.
C1_ClasificacionPorPrioridad ==
    Clasificado =>
      LET alarma == clasif.delta_t_cond > 25000 \/ clasif.cop < 2000
          advertencia == clasif.delta_t_cond > 20000 \/ clasif.cop < 2500
      IN  /\ clasif.estado \in {"NORMAL", "ADVERTENCIA", "ALARMA"}
          /\ alarma => clasif.estado = "ALARMA"
          /\ (~alarma /\ advertencia) => clasif.estado = "ADVERTENCIA"
          /\ (~alarma /\ ~advertencia) => clasif.estado = "NORMAL"

\* C1 witness: delta-T = 30 and COP = 1.8, which meet both the ALARMA and
\* the ADVERTENCIA conditions, have been classified ALARMA.
C1_Witness ==
    /\ clasif.delta_t_cond = 30000
    /\ clasif.cop = 1800
    /\ clasif.estado = "ALARMA"

\* C2: a failed solve appends no record and leaves the records already
\* appended as they were, a successful solve appends exactly one record, the
\* loop goes on to the next (tick, unit) pair in both cases and never ends
\* the run, so the records are exactly the pairs whose solve succeeded.
C2_FalloOmitido ==
    /\ [](Len(registros) = intentos - errores)
    /\ [][ pc = "equipo" =>
            /\ pc' \in {"equipo", "tick"}
            /\ intentos' = intentos + 1
            /\ ~resultado'.ok =>
                 /\ registros' = registros
                 /\ errores' = errores + 1
            /\ resultado'.ok =>
                 /\ Len(registros') = Len(registros) + 1
                 /\ SubSeq(registros', 1, Len(registros)) = registros
                 /\ errores' = errores ]_vars
    /\ [](pc \in {"terminado", "abortado"} =>
            intentos = TotalPuntos(DIAS_SIMULACION, FRECUENCIA_HORAS)
                         * Len(EQUIPOS))

\* C2 witness: a run that met a solver failure went through every pair and
\* finished with the records of the other pairs.
C2_Witness ==
    /\ pc = "terminado"
    /\ errores > 0
    /\ Len(registros) > 0
    /\ Len(registros) + errores
         = TotalPuntos(DIAS_SIMULACION, FRECUENCIA_HORAS) * Len(EQUIPOS)

\* C3: two runs of the generator with the same configuration and the same
\* seed produce the same sequence of records.
C3_CorridasIdenticas ==
    ( /\ corrida = 2
      /\ pc \in {"terminado", "abortado"}
      /\ semilla = corrida_previa.semilla )
        => registros = corrida_previa.registros

\* C4: whenever the compressor work is zero or negative the solver raises
\* InvalidCycleError and returns no result.  Stated for calls with valid
\* flow, efficiency and delta-T: no result carries a work <= 0, and a zero
\* work does not surface as the division error of COP.
C4_TrabajoNoPositivoSenalado ==
    ParametrosValidos =>
      /\ resultado.ok => resultado.scalar.Trabajo_Compresor_kW > 0
      /\ resultado.error # "ZeroDivisionError"

\* C5: a call with mass flow <= 0, efficiency outside (0, 1] or condenser
\* delta-T <= 0 fails with InvalidParameterError and produces no result.
C5_ParametrosValidadosPrimero ==
    (llamada # SinLlamada /\ ~ParametrosValidos)
        => resultado = Fallo("InvalidParameterError")

ConfiguracionInvalida ==
    \/ TotalPuntos(DIAS_SIMULACION, FRECUENCIA_HORAS) = 0
    \/ Len(EQUIPOS) = 0

\* C6: with zero ticks or an empty equipment list the generator stops before
\* any per-tick computation and before any output: no random draw is made,
\* the loop is not completed and no CSV is written.
C6_ConfiguracionInvalidaFatal ==
    ConfiguracionInvalida =>
        /\ rng = semilla
        /\ archivo # "escrito"
        /\ pc \notin {"terminado", "abortado"}

\* the (tick, unit) pair a record belongs to
TickDe(reg) ==
    (reg.timestamp - FechaInicio(ahora, DIAS_SIMULACION)) \div FRECUENCIA_HORAS

UnidadDe(reg) == CHOOSE j \in 1..Len(EQUIPOS) : EQUIPOS[j].id = reg.id_equipo

\* The record of one (tick, unit) pair evaluated on its own, from the state
\* the random generator was seeded with.
RegistroAislado(tick, j) ==
    LET amb == AmbienteDeTick(ahora, DIAS_SIMULACION, FRECUENCIA_HORAS,
                              tick, semilla)
    IN  CuerpoEquipo(ahora, DIAS_SIMULACION, FRECUENCIA_HORAS, tick,
                     EQUIPOS[j], amb.t, amb.rng).registro

\* C7: the record of a (tick, unit) pair depends only on the tick index, the
\* unit's configuration and the seed, so each record of the sequential run
\* equals the record of its pair evaluated on its own.
C7_SinEstadoArrastrado ==
    \A n \in 1..Len(registros) :
        registros[n] = RegistroAislado(TickDe(registros[n]),
                                       UnidadDe(registros[n]))

Severidad(estado) ==
    CASE estado = "NORMAL" -> 0
      [] estado = "ADVERTENCIA" -> 1
      [] estado = "ALARMA" -> 2

\* C8: for a fixed COP a larger delta-T never gets a less severe label, and
\* for a fixed delta-T a smaller COP never gets a less severe label.
C8_ClasificadorMonotono ==
    (Clasificado /\ clasif_previa.estado # "") =>
      /\ ( /\ clasif_previa.cop = clasif.cop
           /\ clasif_previa.delta_t_cond <= clasif.delta_t_cond )
            => Severidad(clasif_previa.estado) <= Severidad(clasif.estado)
      /\ ( /\ clasif_previa.delta_t_cond = clasif.delta_t_cond
           /\ clasif_previa.cop >= clasif.cop )
            => Severidad(clasif_previa.estado) <= Severidad(clasif.estado)

\* C8 witness: two classifications in a row, the second with the same
\* delta-T and a smaller COP, the label rising from NORMAL to ALARMA.
C8_Witness ==
    /\ clasif_previa.estado = "NORMAL"
    /\ clasif.estado = "ALARMA"
    /\ clasif_previa.delta_t_cond = clasif.delta_t_cond
    /\ clasif_previa.cop > clasif.cop

\* C9: for every solved cycle, compressor work plus evaporator heat equals
\* mass flow x (h2 - h3), the heat rejected in the condenser, and h4 = h3.
C9_BalanceEnergia ==
    resultado.ok =>
      /\ resultado.scalar.Trabajo_Compresor_kW
           + resultado.scalar.Calor_Extraido_kW
         = llamada.Flujo_masico_kg_s
             * (resultado.states[2].h - resultado.states[3].h)
      /\ resultado.states[4].h = resultado.states[3].h

\* C9 witness: the cycle of ambient 20 C, interior 4 C, 0.08 kg/s,
\* efficiency 0.75 and delta-T 15 C has been solved, with positive work.
C9_Witness ==
    /\ resultado.ok
    /\ llamada = [ T_ambiente_C |-> 20000, T_interior_C |-> 4000,
                   Flujo_masico_kg_s |-> 8, eta_isentropica |-> 7500,
                   Delta_T_cond_C |-> 15000 ]
    /\ resultado.scalar.Trabajo_Compresor_kW > 0
    /\ resultado.scalar.Calor_Extraido_kW > 0

\* C10: for all valid operating parameters the solved cycle has h2 >= h1 and
\* s2 >= s1.
C10_CompresionNoDecrece ==
    (ParametrosValidos /\ resultado.ok) =>
      /\ resultado.states[2].h >= resultado.states[1].h
      /\ resultado.states[2].s >= resultado.states[1].s


(***************************************************************************)
(* Second-law flag, vapor quality and discharge temperature.               *)
(***************************************************************************)
\* The keys of a solver result other than the two blocks and the six scalar
\* quantities the return statement builds: any flag would be one of them.
Banderas(res) ==
    (DOMAIN res \ {"ok", "error", "scalar", "states"})
    \cup (DOMAIN res.scalar
            \ {"Trabajo_Compresor_kW", "Calor_Extraido_kW", "COP",
               "Calidad_Evap", "Temp_Descarga_C", "Flujo_Masico_kg_s"})

\* C11: a solve on valid parameters whose discharge entropy s2 is below the
\* suction entropy s1 still returns its result, and that result carries a consistency-warning
\* flag.
C11_AvisoDeConsistencia ==
    (pc = "solver" /\ ParametrosValidos /\ resultado.ok
       /\ resultado.states[2].s < resultado.states[1].s)
    => Banderas(resultado) # {}


\* The columns of a record other than the twelve the generator writes: an
\* anomaly indication would be one of them.
ColumnasDeAnomalia(registro) ==
    DOMAIN registro
    \ {"timestamp", "id_equipo", "t_ambiente_C", "t_interior_C",
       "delta_t_cond_C", "eta_compresor", "cop", "temp_descarga_C",
       "trabajo_kW", "calor_extraido_kW", "calidad_evap", "estado"}

\* C12: an evaporator-inlet quality x4 resolved outside [0, 1] is reported as
\* an anomaly: no record carries such a quality as an ordinary value without
\* an anomaly indication.
C12_CalidadAnomalaSenalada ==
    \A n \in 1..Len(registros) :
        (registros[n].calidad_evap < 0 \/ registros[n].calidad_evap > 1000)
        => ColumnasDeAnomalia(registros[n]) # {}


\* C13: the discharge temperature of the scalar block plus 273.15 equals the
\* temperature of state 2, and both are the lookup at the condensing
\* pressure and the real discharge enthalpy h2, not the condensing
\* temperature the state was first given.
C13_DescargaCoherente ==
    (pc = "solver" /\ resultado.ok) =>
        /\ resultado.scalar.Temp_Descarga_C + 273150
             = resultado.states[2].T
        /\ resultado.states[2].T
             = PropsSI_T_HP(resultado.states[2].h, resultado.states[2].P)
        /\ resultado.states[2].P = resultado.states[3].P

\* A cycle solved from valid parameters whose discharge is superheated
\* above the condensing temperature.
C13_Witness ==
    /\ pc = "solver"
    /\ ParametrosValidos
    /\ resultado.ok
    /\ resultado.states[2].T
         > AKelvin(llamada.T_ambiente_C + llamada.Delta_T_cond_C)
    /\ resultado.scalar.Temp_Descarga_C + 273150 = resultado.states[2].T


(***************************************************************************)
(* Fouling, door events and compressor efficiency in the generator.        *)
(***************************************************************************)
\* Whole days elapsed at a tick, and the days of the horizon that remain.
DiasTranscurridos(tick) == (tick * FRECUENCIA_HORAS) \div 24

DiasQueQuedan(tick) == DIAS_SIMULACION - DiasTranscurridos(tick)

\* C14: delta-T is multiplied by 1 + 0.7 x (2 - remaining days) exactly when
\* the remaining whole days of the horizon, horizon days minus whole days
\* elapsed at the tick, are 2 or fewer; the factor is at least 1, and above
\* the threshold delta-T is not inflated.
C14_DegradacionPorDiasRestantes ==
    locales # SinLocales =>
        LET quedan == DiasQueQuedan(locales.tick)
        IN  /\ quedan <= 2 =>
                 locales.delta_t_cond
                   = (locales.delta_t_cond_puerta * (10 + 7 * (2 - quedan)))
                       \div 10
            /\ quedan > 2 =>
                 locales.delta_t_cond = locales.delta_t_cond_puerta
            /\ locales.delta_t_cond >= locales.delta_t_cond_puerta


\* C15: the door ladder yields exactly one of three outcomes: a severe
\* excursion in [3, 8] when the draw is below 0.05, a moderate one in [1, 3]
\* when the draw is in [0.05, 0.20), and 0 otherwise; delta-T before fouling
\* is the base 15 plus that excursion and never below the base.
C15_EscaleraDePuerta ==
    locales # SinLocales =>
        /\ locales.prob_apertura < 5 =>
             (locales.incremento_puerta >= 3000
                /\ locales.incremento_puerta <= 8000)
        /\ (locales.prob_apertura >= 5 /\ locales.prob_apertura < 20) =>
             (locales.incremento_puerta >= 1000
                /\ locales.incremento_puerta <= 3000)
        /\ locales.prob_apertura >= 20 => locales.incremento_puerta = 0
        /\ locales.delta_t_cond_base = 15000
        /\ locales.delta_t_cond_puerta
             = locales.delta_t_cond_base + locales.incremento_puerta
        /\ locales.delta_t_cond_puerta >= locales.delta_t_cond_base

\* A pass of the loop in which the severe branch fired with an excursion
\* strictly above the moderate range.
C15_Witness ==
    /\ locales # SinLocales
    /\ locales.prob_apertura < 5
    /\ locales.incremento_puerta > 3000
    /\ locales.delta_t_cond_puerta = 15000 + locales.incremento_puerta


\* C16: the efficiency passed to the solver is 0.75 plus a noise in
\* [-0.03, 0.02], clamped to [0.60, 0.85], so it lies in [0.60, 0.85]; the
\* recorded efficiency is that same value rounded to three decimals.
C16_EficienciaAcotada ==
    locales # SinLocales =>
        /\ locales.variacion_eta >= -300
        /\ locales.variacion_eta <= 200
        /\ llamada.eta_isentropica
             = Max(6000, Min(8500, 7500 + locales.variacion_eta))
        /\ llamada.eta_isentropica >= 6000
        /\ llamada.eta_isentropica <= 8500
        /\ resultado.ok =>
             LET registrada == registros[Len(registros)].eta_compresor
             IN  /\ registrada % 10 = 0
                 /\ Abs(registrada - llamada.eta_isentropica) <= 5

\* A pass of the loop that emitted a record whose efficiency was changed by
\* the rounding, from a negative noise.
C16_Witness ==
    /\ locales # SinLocales
    /\ resultado.ok
    /\ locales.variacion_eta < 0
    /\ registros[Len(registros)].eta_compresor # llamada.eta_isentropica
    /\ Abs(registros[Len(registros)].eta_compresor
             - llamada.eta_isentropica) <= 5


(***************************************************************************)
(* The ambient temperature model.                                          *)
(***************************************************************************)
\* C17: over the hours 0..23 the diurnal term is bounded, largest at hour 15
\* and smallest at hour 3, twelve hours from the peak: no hour yields a
\* value below that of hour 3.
C17_MinimoDiurnoALasTres ==
    ambiente # SinAmbiente =>
        /\ ambiente.variacion_diurna <= VariacionDiurna(15)
        /\ ambiente.variacion_diurna >= VariacionDiurna(3)


(***************************************************************************)
(* The record sequence.                                                    *)
(***************************************************************************)
\* The records are in (tick, unit) order, each on the time grid.  Each
\* record is strictly below its successor in that order, which is
\* transitive, so any two records are in order and no pair repeats.
RegistrosOrdenados ==
    /\ \A n \in 1..Len(registros) :
          LET desfase == registros[n].timestamp
                           - FechaInicio(ahora, DIAS_SIMULACION)
          IN  /\ desfase % FRECUENCIA_HORAS = 0
              /\ TickDe(registros[n]) >= 0
              /\ TickDe(registros[n])
                   < TotalPuntos(DIAS_SIMULACION, FRECUENCIA_HORAS)
              /\ registros[n].timestamp
                   = FechaInicio(ahora, DIAS_SIMULACION)
                       + TickDe(registros[n]) * FRECUENCIA_HORAS
    /\ \A n \in 1..(Len(registros) - 1) :
          /\ registros[n].timestamp <= registros[n + 1].timestamp
          /\ \/ TickDe(registros[n]) < TickDe(registros[n + 1])
             \/ /\ TickDe(registros[n]) = TickDe(registros[n + 1])
                /\ UnidadDe(registros[n]) < UnidadDe(registros[n + 1])

\* A step only ever extends the record list at its end.
SoloAgrega ==
    /\ Len(registros') >= Len(registros)
    /\ SubSeq(registros', 1, Len(registros)) = registros

\* C18: the record sequence is append-only and ordered by tick ascending and,
\* within a tick, by equipment order; timestamps are non-decreasing, each is
\* start + tick x period, and no (tick, unit) pair appears twice.
C18_RegistrosEnOrden == [] RegistrosOrdenados /\ [][SoloAgrega]_vars

\* A finished run with records of several ticks and of several units of one
\* tick.
C18_Witness ==
    /\ pc = "terminado"
    /\ Len(registros) >= 4
    /\ registros[1].timestamp < registros[Len(registros)].timestamp
    /\ registros[1].timestamp = registros[2].timestamp
    /\ registros[1].id_equipo # registros[2].id_equipo


\* The classification rule as the claims state it.
EtiquetaPorRegla(delta_t_cond, cop) ==
    IF delta_t_cond > 25000 \/ cop < 2000 THEN "ALARMA"
    ELSE IF delta_t_cond > 20000 \/ cop < 2500 THEN "ADVERTENCIA"
    ELSE "NORMAL"

\* The last record and the unrounded values its state was decided on.
UltimoRegistro == registros[Len(registros)]

RegistroClasificado == registros # << >> /\ Clasificado

\* A value within one rounding step of a threshold of the rule.
JuntoAUmbral ==
    \/ Abs(clasif.delta_t_cond - 20000) <= 50
    \/ Abs(clasif.delta_t_cond - 25000) <= 50
    \/ Abs(clasif.cop - 2000) <= 5
    \/ Abs(clasif.cop - 2500) <= 5

\* C19 as stated: the state stored in a record equals the rule applied to
\* the record's own stored, rounded delta-T and COP.
C19_RegistroAutoconsistente ==
    RegistroClasificado =>
        UltimoRegistro.estado
          = EtiquetaPorRegla(UltimoRegistro.delta_t_cond_C, UltimoRegistro.cop)

\* C19 amended: the state stored in a record equals the rule applied to the
\* unrounded delta-T and COP; the stored delta-T and COP are within 0.05 and
\* 0.005 of them, so the rule applied to the stored values can give another
\* state only when an unrounded value is within that distance of a
\* threshold.
C19_EstadoDeValoresSinRedondear ==
    RegistroClasificado =>
        /\ UltimoRegistro.estado
             = EtiquetaPorRegla(clasif.delta_t_cond, clasif.cop)
        /\ Abs(UltimoRegistro.delta_t_cond_C - clasif.delta_t_cond) <= 50
        /\ Abs(UltimoRegistro.cop - clasif.cop) <= 5
        /\ UltimoRegistro.estado
             # EtiquetaPorRegla(UltimoRegistro.delta_t_cond_C,
                                UltimoRegistro.cop)
           => JuntoAUmbral

\* A record stored as ADVERTENCIA for a delta-T of 20.01, whose stored
\* delta-T of 20.0 and stored COP the rule would call NORMAL.
C19_Witness ==
    /\ RegistroClasificado
    /\ clasif.delta_t_cond > 20000
    /\ UltimoRegistro.estado = "ADVERTENCIA"
    /\ UltimoRegistro.delta_t_cond_C = 20000
    /\ EtiquetaPorRegla(UltimoRegistro.delta_t_cond_C, UltimoRegistro.cop)
         = "NORMAL"


\* C20: for every day of the year 1..366 the seasonal base temperature is a
\* blend of the two baselines with a factor in [0, 1], so it lies between
\* the winter baseline -5 and the summer baseline 10 inclusive.
C20_BaseEstacionalAcotada ==
    ambiente # SinAmbiente =>
        /\ ambiente.factor_estacion >= 0
        /\ ambiente.factor_estacion <= 344
        /\ ambiente.temp_base >= (-5000) * 344
        /\ ambiente.temp_base <= 10000 * 344


(***************************************************************************)
(* The shipped configuration, the remaining days and the solver call.      *)
(***************************************************************************)
\* The pass of the inner loop just made emitted the last record.
PasadaConRegistro == locales # SinLocales /\ resultado.ok

\* The last record is of the final day of the horizon: its timestamp is in
\* the 24 hours before the start of the run.
EnDiaFinal == UltimoRegistro.timestamp >= ahora - 24

\* C21: with the shipped configuration the remaining days stay in 1..7, so
\* the fouling factor is 1.0 up to and including the day with 2 days
\* remaining and 1.7 on the final day; every record before the final day has
\* delta-T in [15, 23] and is ALARMA only through COP < 2.0, and every record
\* of the final day has delta-T >= 25.5 and is ALARMA.
C21_ConfiguracionEnviada ==
    locales # SinLocales =>
        /\ locales.dias_restantes >= 1
        /\ locales.dias_restantes <= 7
        /\ locales.dias_restantes >= 2 =>
             locales.delta_t_cond = locales.delta_t_cond_puerta
        /\ locales.dias_restantes = 1 =>
             10 * locales.delta_t_cond = 17 * locales.delta_t_cond_puerta
        /\ (resultado.ok /\ ~EnDiaFinal) =>
             /\ locales.dias_restantes >= 2
             /\ UltimoRegistro.delta_t_cond_C >= 15000
             /\ UltimoRegistro.delta_t_cond_C <= 23000
             /\ UltimoRegistro.estado = "ALARMA" =>
                  resultado.scalar.COP < 2000
        /\ (resultado.ok /\ EnDiaFinal) =>
             /\ locales.dias_restantes = 1
             /\ UltimoRegistro.delta_t_cond_C >= 25500
             /\ UltimoRegistro.estado = "ALARMA"

\* A record of the final day that is ALARMA through its delta-T alone, in a
\* run that had emitted NORMAL records before.
C21_Witness ==
    /\ PasadaConRegistro
    /\ DIAS_SIMULACION = 7
    /\ EnDiaFinal
    /\ locales.dias_restantes = 1
    /\ UltimoRegistro.estado = "ALARMA"
    /\ resultado.scalar.COP >= 2000
    /\ registros[1].estado = "NORMAL"


\* C22: for every positive horizon and every tick period that divides 24
\* hours, the remaining days used at tick i are the horizon in days minus
\* the whole days elapsed at the tick's timestamp, floor(i x period / 24).
C22_DiasRestantesPorTiempo ==
    (locales # SinLocales /\ DIAS_SIMULACION > 0
       /\ 24 % FRECUENCIA_HORAS = 0)
    => locales.dias_restantes
         = DIAS_SIMULACION
             - ((Fecha(ahora, DIAS_SIMULACION, FRECUENCIA_HORAS, locales.tick)
                   - FechaInicio(ahora, DIAS_SIMULACION)) \div 24)


\* The unit of the pass of the inner loop just made.
UnidadDePasada ==
    EQUIPOS[CHOOSE j \in 1..Len(EQUIPOS) : EQUIPOS[j].id = locales.id_equipo]

\* C23: every solver call of the generator passes the unit's nominal mass
\* flow, which is positive, an efficiency in (0, 1], a delta-T of at least
\* 15 and the unit's un-jittered setpoint as evaporation temperature; the
\* jitter only reaches the recorded interior temperature, which stays within
\* 0.5 of the setpoint.
C23_LlamadaValida ==
    locales # SinLocales =>
        /\ llamada.Flujo_masico_kg_s = UnidadDePasada.flujo
        /\ llamada.Flujo_masico_kg_s > 0
        /\ llamada.eta_isentropica > 0
        /\ llamada.eta_isentropica <= 10000
        /\ llamada.Delta_T_cond_C >= 15000
        /\ llamada.T_interior_C = UnidadDePasada.t_interior
        /\ resultado.ok =>
             /\ UltimoRegistro.id_equipo = locales.id_equipo
             /\ Abs(UltimoRegistro.t_interior_C - llamada.T_interior_C) <= 500

\* A pass whose record carries an interior temperature other than the
\* setpoint the solver was called with.
C23_Witness ==
    /\ PasadaConRegistro
    /\ llamada.T_interior_C = UnidadDePasada.t_interior
    /\ UltimoRegistro.t_interior_C # llamada.T_interior_C
    /\ Abs(UltimoRegistro.t_interior_C - llamada.T_interior_C) <= 500

====
